---- MODULE Spec2Model ----
(***************************************************************************)
(* Model of merton/binance_downloader.py (BinanceDataDownloader) and of    *)
(* the driver script merton/test_data.py.                                  *)
(*                                                                         *)
(* A date is the number of days since 1970-01-01.  A 64-bit millisecond    *)
(* timestamp is a pair <<hi, lo>> of decimal limbs, hi * 10^6 + lo, so     *)
(* that it fits 32-bit integers.  Strings are TLA+ strings.                *)
(***************************************************************************)
EXTENDS Integers, Sequences, FiniteSets, TLC

(* ------------------------------ bounds -------------------------------- *)

\* number of calendar days, from Day0 on, for which the archive host is
\* modelled; request ranges are drawn from these days
MaxDays == 3

\* number of download_data calls one caller makes in a row
MaxCalls == 2

\* number of days concurrent callers ask for
MaxConcDays == 2

(* --------------------------- calendar dates --------------------------- *)

\* datetime.date(y, m, d) as days since 1970-01-01
DaysFromCivil(y, m, d) ==
    LET yy  == IF m <= 2 THEN y - 1 ELSE y
        era == yy \div 400
        yoe == yy - era * 400
        mp  == IF m > 2 THEN m - 3 ELSE m + 9
        doy == (153 * mp + 2) \div 5 + d - 1
        doe == yoe * 365 + yoe \div 4 - yoe \div 100 + doy
    IN  era * 146097 + doe - 719468

\* the year, month and day of a date
CivilFromDays(z0) ==
    LET z   == z0 + 719468
        era == z \div 146097
        doe == z - era * 146097
        yoe == (doe - doe \div 1460 + doe \div 36524 - doe \div 146096) \div 365
        doy == doe - (365 * yoe + yoe \div 4 - yoe \div 100)
        mp  == (5 * doy + 2) \div 153
        d   == doy - (153 * mp + 2) \div 5 + 1
        m   == IF mp < 10 THEN mp + 3 ELSE mp - 9
        y   == yoe + era * 400 + (IF m <= 2 THEN 1 ELSE 0)
    IN  [year |-> y, month |-> m, day |-> d]

\* a non-negative number in decimal, zero-padded to w digits
RECURSIVE Pad(_, _)
Pad(n, w) ==
    IF w <= 1 /\ n < 10 THEN ToString(n)
    ELSE Pad(n \div 10, w - 1) \o ToString(n % 10)

\* dt.strftime("%Y-%m-%d"), which is also str(dt) of a date
strftime(dt) ==
    LET c == CivilFromDays(dt)
    IN  Pad(c.year, 4) \o "-" \o Pad(c.month, 2) \o "-" \o Pad(c.day, 2)

\* current_date += timedelta(days=1)
NextDay(dt) == dt + 1

(* ----------------------------- URL builder ---------------------------- *)

kline_url_prefix == "https://data.binance.vision/data/spot/daily/klines"

\* a variant of get_url with symbol and timeframe exchanged
get_url_swapped(timeframe, symbol, dt) ==
    kline_url_prefix \o "/" \o timeframe \o "/" \o symbol \o "/"
        \o timeframe \o "-" \o symbol \o "-" \o strftime(dt) \o ".zip"

get_url(timeframe, symbol, dt) ==
    kline_url_prefix \o "/" \o symbol \o "/" \o timeframe \o "/"
        \o symbol \o "-" \o timeframe \o "-" \o strftime(dt) \o ".zip"

(* --------------------------- the archive host ------------------------- *)

Symbols == {"BTCUSDT", "ETHUSDT"}
Timeframes == {"1h", "1m"}

\* the (symbol, timeframe) pairs callers ask for
Markets == { <<"BTCUSDT", "1h">>, <<"ETHUSDT", "1m">> }

\* the first modelled day, 2023-12-31, so that the days cross a month and a year
Day0 == DaysFromCivil(2023, 12, 31)
Days == Day0 .. (Day0 + MaxDays - 1)

\* a CSV field read as a number is a pair of decimal limbs <<hi, lo>>, the
\* number hi * 10^6 + lo; a missing field is NaN
NaN == << >>
Num(n) == <<n \div 1000000, n % 1000000>>

\* the millisecond timestamp of hour k of day d
MsOf(d, k) ==
    LET u == d * 864 + k * 36
    IN  <<u \div 10, (u % 10) * 100000>>

\* a timestamp plus n milliseconds, n < 10^6
MsAdd(ts, n) == <<ts[1] + (ts[2] + n) \div 1000000, (ts[2] + n) % 1000000>>

SymCode(symbol) == IF symbol = "BTCUSDT" THEN 42000 ELSE 2300
TfCode(timeframe) == IF timeframe = "1h" THEN 60 ELSE 1

\* one kline as the host publishes it: 12 positional fields
Kline(symbol, timeframe, d, k) ==
    << MsOf(d, k), Num(SymCode(symbol) + k), Num(SymCode(symbol) + 9),
       Num(SymCode(symbol) - 9), Num(SymCode(symbol) + k + 1),
       Num(7 * TfCode(timeframe)), MsAdd(MsOf(d, k), 59999),
       Num(TfCode(timeframe)), Num(k + 1), Num(3), Num(4), Num(0) >>

\* CSV payloads the host may hold for one day, each a sequence of lines and a
\* line a sequence of fields
OneRow(s, t, d)   == << Kline(s, t, d, 0) >>
Unsorted(s, t, d) == << Kline(s, t, d, 1), Kline(s, t, d, 0), Kline(s, t, d, 1) >>
EmptyCsv          == << >>
Ragged(s, t, d)   == << Kline(s, t, d, 0), Kline(s, t, d, 1) \o <<Num(0)>> >>
Narrow(s, t, d)   == << SubSeq(Kline(s, t, d, 0), 1, 11) >>

Payloads(s, t, d) ==
    { OneRow(s, t, d), Unsorted(s, t, d), EmptyCsv, Ragged(s, t, d),
      Narrow(s, t, d) }

\* a response body: a zip archive with its members in order, or bytes that
\* are no zip archive
NotZip == [zip |-> FALSE, members |-> << >>]
Zip(members) == [zip |-> TRUE, members |-> members]
Member(name, lines) == [name |-> name, lines |-> lines]

\* requests.get(url) returns a response or raises
HttpResponse(status, content) ==
    [raised |-> FALSE, status_code |-> status, content |-> content]
TransportError == [raised |-> TRUE, status_code |-> 0, content |-> NotZip]
NotFound == HttpResponse(404, NotZip)

\* what requests.get(url) can meet for the archive of (s, t, d)
Responses(s, t, d) ==
    { TransportError, NotFound, HttpResponse(200, NotZip),
      HttpResponse(200, Zip(<< >>)) }
    \cup { HttpResponse(200, Zip(<< Member(s \o "-" \o t \o ".csv", pl) >>)) :
             pl \in Payloads(s, t, d) }

\* the value of a decimal numeral
RECURSIVE ParseNat(_)
ParseNat(str) ==
    IF str = "" THEN 0
    ELSE LET c == SubSeq(str, Len(str), Len(str))
             v == CASE c = "0" -> 0 [] c = "1" -> 1 [] c = "2" -> 2 [] c = "3" -> 3
                    [] c = "4" -> 4 [] c = "5" -> 5 [] c = "6" -> 6 [] c = "7" -> 7
                    [] c = "8" -> 8 [] c = "9" -> 9 [] OTHER -> 0
         IN  10 * ParseNat(SubSeq(str, 1, Len(str) - 1)) + v

\* the position of the first ch in str at or after i, 0 when there is none
RECURSIVE Find(_, _, _)
Find(str, ch, i) ==
    IF i > Len(str) THEN 0
    ELSE IF SubSeq(str, i, i) = ch THEN i ELSE Find(str, ch, i + 1)

\* the host's reading of a request path: which archive a URL names
ParseUrl(url) ==
    LET n0   == Len(kline_url_prefix)
        bad  == [ok |-> FALSE]
        s1   == Find(url, "/", n0 + 2)
        s2   == IF s1 = 0 THEN 0 ELSE Find(url, "/", s1 + 1)
        sym  == SubSeq(url, n0 + 2, s1 - 1)
        tf   == SubSeq(url, s1 + 1, s2 - 1)
        file == SubSeq(url, s2 + 1, Len(url))
        head == sym \o "-" \o tf \o "-"
        iso  == SubSeq(file, Len(head) + 1, Len(head) + 10)
    IN  IF Len(url) < n0 + 2 \/ SubSeq(url, 1, n0 + 1) # kline_url_prefix \o "/"
           \/ s1 = 0 \/ s2 = 0
        THEN bad
        ELSE IF Len(file) # Len(head) + 14
                \/ SubSeq(file, 1, Len(head)) # head
                \/ SubSeq(file, Len(head) + 11, Len(file)) # ".zip"
                \/ SubSeq(iso, 5, 5) # "-" \/ SubSeq(iso, 8, 8) # "-"
        THEN bad
        ELSE [ok |-> TRUE, symbol |-> sym, timeframe |-> tf,
              date |-> DaysFromCivil(ParseNat(SubSeq(iso, 1, 4)),
                                     ParseNat(SubSeq(iso, 6, 7)),
                                     ParseNat(SubSeq(iso, 9, 10)))]

\* the archives the host may hold, by symbol, timeframe and day
Archives ==
    [s \in Symbols, t \in Timeframes, d \in Days |-> Responses(s, t, d)]

\* the responses the host can give for a URL: an archive it may hold, or 404
ServerResponses(url) ==
    UNION { IF a.ok /\ <<a.symbol, a.timeframe, a.date>> \in DOMAIN Archives
            THEN Archives[a.symbol, a.timeframe, a.date]
            ELSE { NotFound } : a \in { ParseUrl(url) } }

(* ----------------------------- data frames ---------------------------- *)

\* a DataFrame: its column labels, its index and its rows
DataFrame(columns, index, index_name, data) ==
    [columns |-> columns, index |-> index, index_name |-> index_name, data |-> data]
EmptyFrame == DataFrame(<< >>, << >>, "", << >>)

\* the labels 0 .. n-1 pandas gives to unnamed columns and rows
RangeIndex(n) == [i \in 1 .. n |-> i - 1]

PadRow(row, w) == [j \in 1 .. w |-> IF j <= Len(row) THEN row[j] ELSE NaN]

NonBlank(line) == line # << >>

\* the outcome of an operation that may raise: the exception's name, "" for none
Returned(v) == [exc |-> "", value |-> v]
Raised(name) == [exc |-> name, value |-> EmptyFrame]

\* pd.read_csv(csv_file, header=None): blank lines are skipped, the first line
\* sets the number of columns, a longer line is an error, a shorter one is
\* filled with NaN
read_csv(lines) ==
    LET kept == SelectSeq(lines, NonBlank)
        w    == Len(kept[1])
    IN  IF kept = << >> THEN Raised("EmptyDataError")
        ELSE IF \E i \in 1 .. Len(kept) : Len(kept[i]) > w THEN Raised("ParserError")
        ELSE Returned(DataFrame(RangeIndex(w), RangeIndex(Len(kept)), "",
                                [i \in 1 .. Len(kept) |-> PadRow(kept[i], w)]))

\* the try statement of the loop body for one response: the frame appended to
\* all_data, or the exception caught, or neither for a status other than 200
TryDay(response) ==
    IF response.raised THEN Raised("ConnectionError")
    ELSE IF response.status_code = 200
    THEN IF ~response.content.zip THEN Raised("BadZipFile")
         ELSE IF response.content.members = << >> THEN Raised("IndexError")
         ELSE read_csv(response.content.members[1].lines)
    ELSE Raised("NoData")

\* whether the day's frame is appended to all_data
Appended(response) == TryDay(response).exc = ""

Max(a, b) == IF a >= b THEN a ELSE b

RECURSIVE MaxWidth(_)
MaxWidth(frames) ==
    IF frames = << >> THEN 0
    ELSE Max(Len(Head(frames).columns), MaxWidth(Tail(frames)))

\* a variant of AllRows that puts each later frame first
RECURSIVE AllRowsPrepended(_, _)
AllRowsPrepended(frames, w) ==
    IF frames = << >> THEN << >>
    ELSE AllRowsPrepended(Tail(frames), w)
         \o [i \in 1 .. Len(Head(frames).data) |-> PadRow(Head(frames).data[i], w)]

RECURSIVE AllRows(_, _)
AllRows(frames, w) ==
    IF frames = << >> THEN << >>
    ELSE [i \in 1 .. Len(Head(frames).data) |-> PadRow(Head(frames).data[i], w)]
         \o AllRows(Tail(frames), w)

\* pd.concat(all_data, ignore_index=True): the frames' rows in list order, over
\* the union of their column labels, renumbered
concat(frames) ==
    LET w    == MaxWidth(frames)
        rows == AllRows(frames, w)
    IN  DataFrame(RangeIndex(w), RangeIndex(Len(rows)), "", rows)

ColumnNames ==
    << "timestamp", "open", "high", "low", "close",
       "volume", "close_time", "quote_volume", "trades",
       "taker_buy_base", "taker_buy_quote", "ignore" >>

\* combined_df.columns = [...]: the number of labels must be the frame's width
set_columns(df, names) ==
    IF Len(names) # Len(df.columns) THEN Raised("ValueError")
    ELSE Returned([df EXCEPT !.columns = names])

\* pd.to_datetime(v, unit='ms'): the date and the millisecond of the day
NaT == [date |-> -1, ms |-> -1]
to_datetime(v) ==
    IF v = NaN THEN NaT
    ELSE LET u == v[1] * 10 + v[2] \div 100000
         IN  [date |-> u \div 864, ms |-> (u % 864) * 100000 + (v[2] % 100000)]

ColumnAt(df, name) == CHOOSE j \in 1 .. Len(df.columns) : df.columns[j] = name

Without(seq, j) == SubSeq(seq, 1, j - 1) \o SubSeq(seq, j + 1, Len(seq))

\* a variant of set_index that keeps the timestamp column beside the index
set_index_keep(df, name) ==
    LET j == ColumnAt(df, name)
    IN  DataFrame(df.columns,
                  [i \in 1 .. Len(df.data) |-> to_datetime(df.data[i][j])],
                  name,
                  df.data)

\* combined_df['timestamp'] = pd.to_datetime(...); set_index('timestamp'): the
\* converted column becomes the index and leaves the columns
set_index(df, name) ==
    LET j == ColumnAt(df, name)
    IN  DataFrame(Without(df.columns, j),
                  [i \in 1 .. Len(df.data) |-> to_datetime(df.data[i][j])],
                  name,
                  [i \in 1 .. Len(df.data) |-> Without(df.data[i], j)])

\* the table built from a non-empty all_data, or the exception raised
Combine(all_data) ==
    LET named == set_columns(concat(all_data), ColumnNames)
    IN  IF named.exc # "" THEN named
        ELSE Returned(set_index(named.value, "timestamp"))

(* ------------------------------ CSV output ---------------------------- *)

NumStr(v) ==
    IF v = NaN THEN ""
    ELSE IF v[1] = 0 THEN ToString(v[2])
    ELSE ToString(v[1]) \o Pad(v[2], 6)

\* a column holding NaN is a float column, written with a decimal point
IsFloat(df, j) == \E i \in 1 .. Len(df.data) : df.data[i][j] = NaN

CellStr(df, i, j) ==
    LET v == df.data[i][j]
    IN  IF v # NaN /\ IsFloat(df, j) THEN NumStr(v) \o ".0" ELSE NumStr(v)

\* a datetime index is written as dates when every value is a midnight
DatesOnly(df) == \A i \in 1 .. Len(df.index) : df.index[i].ms = 0

TimeStr(ms) ==
    Pad(ms \div 3600000, 2) \o ":" \o Pad((ms \div 60000) % 60, 2) \o ":"
        \o Pad((ms \div 1000) % 60, 2)
        \o (IF ms % 1000 = 0 THEN "" ELSE "." \o Pad(ms % 1000, 3))

IndexStr(df, i) ==
    LET t == df.index[i]
    IN  IF t = NaT THEN ""
        ELSE IF DatesOnly(df) THEN strftime(t.date)
        ELSE strftime(t.date) \o " " \o TimeStr(t.ms)

\* the lines combined_df.to_csv(output_file) writes: the header with the
\* index name first, then one line per row
CsvLines(df) ==
    << <<df.index_name>> \o df.columns >>
    \o [i \in 1 .. Len(df.data) |->
          <<IndexStr(df, i)>> \o [j \in 1 .. Len(df.columns) |-> CellStr(df, i, j)]]

base_path == "data"

\* self.base_path / f"{symbol}_{timeframe}_{start_date}_{end_date}.csv"
OutputFile(symbol, timeframe, start_date, end_date) ==
    base_path \o "/" \o symbol \o "_" \o timeframe \o "_"
        \o strftime(start_date) \o "_" \o strftime(end_date) \o ".csv"

(* ---------------------------- the program state ----------------------- *)

Procs == {1, 2}

VARIABLES
    remote,        \* the archive host: URL -> the response it gives, once asked
    fs,            \* the file system: path -> the file's lines
    pc,            \* where each caller is
    args,          \* download_data's arguments
    current_date,  \* download_data's locals
    all_data,
    combined_df,
    handle,        \* to_csv's open file handle
    result,        \* what the call returned or raised
    calls,         \* the number of calls the caller has made
    gets,          \* the URLs the current call has requested, in order
    opens,         \* the number of times the current call opened its output file
    fs0,           \* the file system when the current call began
    prev,          \* the previous call's result, table and output file
    overlap,       \* whether two to_csv writes of one file overlapped in time
    last_writer,   \* the caller that wrote to a file last
    script         \* where the driver script is

locals == <<pc, args, current_date, all_data, combined_df, handle, result>>
observed == <<calls, gets, opens, fs0, prev, overlap, last_writer>>
vars == <<remote, fs, locals, observed, script>>

Arguments(symbol, timeframe, start_date, end_date) ==
    [symbol |-> symbol, timeframe |-> timeframe,
     start_date |-> start_date, end_date |-> end_date]
NoArguments == Arguments("", "", 0, 0)

\* what a call has come to: still running, returned None, returned combined_df,
\* or let an exception through
Running       == [outcome |-> "running", exc |-> ""]
ReturnNone    == [outcome |-> "None", exc |-> ""]
ReturnFrame   == [outcome |-> "DataFrame", exc |-> ""]
Propagated(e) == [outcome |-> "raised", exc |-> e]

\* a file that does not exist, and the content of a path
NoFile == [exists |-> FALSE, lines |-> << >>]
FileAt(files, path) ==
    IF path \in DOMAIN files THEN [exists |-> TRUE, lines |-> files[path]] ELSE NoFile

\* a file handle open for writing: the lines to_csv has to write and how many
\* of them it has written
Closed == [lines |-> << >>, pos |-> 0]

output_file(a) == OutputFile(a.symbol, a.timeframe, a.start_date, a.end_date)

Init ==
    /\ remote = << >>
    /\ fs = << >>
    /\ pc = [p \in Procs |-> "idle"]
    /\ args = [p \in Procs |-> NoArguments]
    /\ current_date = [p \in Procs |-> 0]
    /\ all_data = [p \in Procs |-> << >>]
    /\ combined_df = [p \in Procs |-> EmptyFrame]
    /\ handle = [p \in Procs |-> Closed]
    /\ result = [p \in Procs |-> Running]
    /\ calls = [p \in Procs |-> 0]
    /\ gets = [p \in Procs |-> << >>]
    /\ opens = [p \in Procs |-> 0]
    /\ fs0 = [p \in Procs |-> << >>]
    /\ prev = [p \in Procs |-> [result |-> Running, df |-> EmptyFrame, file |-> NoFile]]
    /\ overlap = FALSE
    /\ last_writer = 0
    /\ script = [line |-> 0, exc |-> ""]

(* ----------------------------- download_data -------------------------- *)

\* a variant of StartCall whose all_data outlives the call
StartCallKeepsData(p, a) ==
    /\ pc' = [pc EXCEPT ![p] = "loop"]
    /\ args' = [args EXCEPT ![p] = a]
    /\ current_date' = [current_date EXCEPT ![p] = a.start_date]
    /\ all_data' = all_data
    /\ combined_df' = [combined_df EXCEPT ![p] = EmptyFrame]
    /\ handle' = [handle EXCEPT ![p] = Closed]
    /\ result' = [result EXCEPT ![p] = Running]
    /\ calls' = [calls EXCEPT ![p] = @ + 1]
    /\ gets' = [gets EXCEPT ![p] = << >>]
    /\ opens' = [opens EXCEPT ![p] = 0]
    /\ fs0' = [fs0 EXCEPT ![p] = fs]

\* lines 75-76: the call binds its arguments and starts with an empty all_data
StartCall(p, a) ==
    /\ pc' = [pc EXCEPT ![p] = "loop"]
    /\ args' = [args EXCEPT ![p] = a]
    /\ current_date' = [current_date EXCEPT ![p] = a.start_date]
    /\ all_data' = [all_data EXCEPT ![p] = << >>]
    /\ combined_df' = [combined_df EXCEPT ![p] = EmptyFrame]
    /\ handle' = [handle EXCEPT ![p] = Closed]
    /\ result' = [result EXCEPT ![p] = Running]
    /\ calls' = [calls EXCEPT ![p] = @ + 1]
    /\ gets' = [gets EXCEPT ![p] = << >>]
    /\ opens' = [opens EXCEPT ![p] = 0]
    /\ fs0' = [fs0 EXCEPT ![p] = fs]

\* a caller's first call, with any symbol, timeframe and dates
Call(p) ==
    /\ pc[p] = "idle"
    /\ calls[p] = 0
    /\ script.line = 0
    /\ \E m \in Markets, a \in Days, b \in Days :
          StartCall(p, Arguments(m[1], m[2], a, b))
    /\ UNCHANGED <<remote, fs, prev, overlap, last_writer, script>>

\* the caller calls again with identical arguments
CallAgain(p) ==
    /\ pc[p] = "returned"
    /\ calls[p] < MaxCalls
    /\ script.line = 0
    /\ prev' = [prev EXCEPT ![p] = [result |-> result[p], df |-> combined_df[p],
                                    file |-> FileAt(fs, output_file(args[p]))]]
    /\ StartCall(p, args[p])
    /\ UNCHANGED <<remote, fs, overlap, last_writer, script>>

\* a variant of LoopCond that leaves out the last day
LoopCondStrict(cur, end_date) == cur < end_date

\* line 78: while current_date <= end_date
LoopCond(cur, end_date) == cur <= end_date

\* a variant of FetchDay that has the output file open for writing during the
\* loop
FetchDayTouches(p) ==
    /\ pc[p] = "loop"
    /\ LoopCond(current_date[p], args[p].end_date)
    /\ \E url \in { get_url(args[p].timeframe, args[p].symbol, current_date[p]) } :
          \E response \in ServerResponses(url) :
             /\ url \in DOMAIN remote => response = remote[url]
             /\ remote' = (url :> response) @@ remote
             /\ gets' = [gets EXCEPT ![p] = Append(@, url)]
             /\ all_data' = [all_data EXCEPT ![p] =
                               IF Appended(response)
                               THEN Append(@, TryDay(response).value) ELSE @]
    /\ fs' = (output_file(args[p]) :> << >>) @@ fs
    /\ current_date' = [current_date EXCEPT ![p] = NextDay(@)]
    /\ UNCHANGED <<pc, args, combined_df, handle, result,
                   calls, opens, fs0, prev, overlap, last_writer, script>>

\* lines 78-95: one iteration of the loop: one GET, the day's frame appended or
\* the day skipped, the date advanced
FetchDay(p) ==
    /\ pc[p] = "loop"
    /\ LoopCond(current_date[p], args[p].end_date)
    /\ \E url \in { get_url(args[p].timeframe, args[p].symbol, current_date[p]) } :
          \E response \in ServerResponses(url) :
             /\ url \in DOMAIN remote => response = remote[url]
             /\ remote' = (url :> response) @@ remote
             /\ gets' = [gets EXCEPT ![p] = Append(@, url)]
             /\ all_data' = [all_data EXCEPT ![p] =
                               IF Appended(response)
                               THEN Append(@, TryDay(response).value) ELSE @]
    /\ current_date' = [current_date EXCEPT ![p] = NextDay(@)]
    /\ UNCHANGED <<fs, pc, args, combined_df, handle, result,
                   calls, opens, fs0, prev, overlap, last_writer, script>>

\* lines written at position k + 1 of a file: written past its end, they leave
\* a hole of empty lines
Hole == << >>
WriteAt(lines, k, chunk) ==
    IF k <= Len(lines)
    THEN SubSeq(lines, 1, k) \o chunk \o SubSeq(lines, k + Len(chunk) + 1, Len(lines))
    ELSE lines \o [i \in 1 .. (k - Len(lines)) |-> Hole] \o chunk

\* a variant of HasData that takes an empty all_data for data
HasDataAlways(frames) == TRUE

\* line 97: if all_data
HasData(frames) == frames # << >>

\* a variant of OpenForWriting that keeps what an existing file holds
OpenKeepingContent(files, path) ==
    IF path \in DOMAIN files THEN files ELSE (path :> << >>) @@ files

\* line 114: the output file opened for writing is created or emptied
OpenForWriting(files, path) == (path :> << >>) @@ files

\* lines 97-114 and 118: after the loop an empty all_data returns None; else the
\* table is built and to_csv opens the output file for writing, which creates
\* or empties it
EndLoop(p) ==
    /\ pc[p] = "loop"
    /\ ~LoopCond(current_date[p], args[p].end_date)
    /\ IF HasData(all_data[p])
       THEN LET c == Combine(all_data[p])
            IN  IF c.exc # ""
                THEN /\ pc' = [pc EXCEPT ![p] = "raised"]
                     /\ result' = [result EXCEPT ![p] = Propagated(c.exc)]
                     /\ UNCHANGED <<fs, combined_df, handle, opens, overlap>>
                ELSE /\ pc' = [pc EXCEPT ![p] = "to_csv"]
                     /\ combined_df' = [combined_df EXCEPT ![p] = c.value]
                     /\ fs' = OpenForWriting(fs, output_file(args[p]))
                     /\ handle' = [handle EXCEPT ![p] =
                                     [lines |-> CsvLines(c.value), pos |-> 0]]
                     /\ opens' = [opens EXCEPT ![p] = @ + 1]
                     /\ overlap' = (overlap \/ \E q \in Procs \ {p} :
                                       /\ pc[q] = "to_csv"
                                       /\ output_file(args[q]) = output_file(args[p]))
                     /\ UNCHANGED result
       ELSE /\ pc' = [pc EXCEPT ![p] = "returned"]
            /\ result' = [result EXCEPT ![p] = ReturnNone]
            /\ UNCHANGED <<fs, combined_df, handle, opens, overlap>>
    /\ UNCHANGED <<remote, args, current_date, all_data,
                   calls, gets, fs0, prev, last_writer, script>>

\* line 114: to_csv writes the header line at the start of the file
WriteHeader(p) ==
    /\ pc[p] = "to_csv"
    /\ handle[p].pos = 0
    /\ fs' = [fs EXCEPT ![output_file(args[p])] = WriteAt(@, 0, SubSeq(handle[p].lines, 1, 1))]
    /\ handle' = [handle EXCEPT ![p].pos = 1]
    /\ last_writer' = p
    /\ UNCHANGED <<remote, pc, args, current_date, all_data, combined_df, result,
                   calls, gets, opens, fs0, prev, overlap, script>>

\* lines 114-117: to_csv writes the rows after its header and closes the file,
\* and the call returns combined_df
WriteRows(p) ==
    /\ pc[p] = "to_csv"
    /\ handle[p].pos = 1
    /\ fs' = [fs EXCEPT ![output_file(args[p])] =
                WriteAt(@, 1, SubSeq(handle[p].lines, 2, Len(handle[p].lines)))]
    /\ handle' = [handle EXCEPT ![p] = Closed]
    /\ last_writer' = p
    /\ pc' = [pc EXCEPT ![p] = "returned"]
    /\ result' = [result EXCEPT ![p] = ReturnFrame]
    /\ UNCHANGED <<remote, args, current_date, all_data, combined_df,
                   calls, gets, opens, fs0, prev, overlap, script>>

download_data(p) ==
    FetchDay(p) \/ EndLoop(p) \/ WriteHeader(p) \/ WriteRows(p)

\* one caller, calling download_data up to MaxCalls times
Next ==
    \/ Call(1)
    \/ CallAgain(1)
    \/ FetchDay(1)
    \/ EndLoop(1)
    \/ WriteHeader(1)
    \/ WriteRows(1)

Spec == Init /\ [][Next]_vars

(* --------------------------- concurrent callers ----------------------- *)

\* the market the concurrent callers ask for
ConcMarkets == { <<"BTCUSDT", "1h">> }

\* a caller's call when another caller may be calling too: caller 1 calls first,
\* for at most MaxConcDays days, and caller 2 asks for the same symbol,
\* timeframe and dates
ConcCall(p) ==
    /\ pc[p] = "idle"
    /\ calls[p] = 0
    /\ script.line = 0
    /\ \E m \in ConcMarkets, a \in Days, b \in Days :
          /\ b - a < MaxConcDays
          /\ p = 1 \/ (calls[1] > 0 /\ args[1] = Arguments(m[1], m[2], a, b))
          /\ StartCall(p, Arguments(m[1], m[2], a, b))
    /\ UNCHANGED <<remote, fs, prev, overlap, last_writer, script>>

\* the archive the host publishes for a URL
Published(url) ==
    LET a == ParseUrl(url)
    IN  HttpResponse(200, Zip(<< Member(a.symbol \o "-" \o a.timeframe \o ".csv",
                                        OneRow(a.symbol, a.timeframe, a.date)) >>))

\* the host publishes the archive of a day it did not have
Publish ==
    /\ \E url \in DOMAIN remote :
          /\ remote[url] = NotFound
          /\ ParseUrl(url).ok
          /\ remote' = [remote EXCEPT ![url] = Published(url)]
    /\ UNCHANGED <<fs, locals, observed, script>>

NextConc ==
    \/ \E p \in Procs :
          ConcCall(p) \/ FetchDay(p) \/ EndLoop(p) \/ WriteHeader(p) \/ WriteRows(p)
    \/ Publish

SpecConc == Init /\ [][NextConc]_vars

(* --------------------------- the driver script ------------------------ *)

\* test_data.py, lines 8-13
ScriptArguments ==
    Arguments("BTCUSDT", "1h", DaysFromCivil(2024, 1, 1), DaysFromCivil(2024, 1, 31))

\* where the script is (the line it executes next, 0 before it starts), and the
\* exception that ended it, if any
At(line) == [line |-> line, exc |-> ""]
Crashed(line, e) == [line |-> line, exc |-> e]

\* df.to_csv(path, index=False): the header and the rows without the index
CsvLinesNoIndex(df) ==
    << df.columns >>
    \o [i \in 1 .. Len(df.data) |-> [j \in 1 .. Len(df.columns) |-> CellStr(df, i, j)]]

\* lines 5-13: the script builds a downloader and calls download_data
ScriptCall ==
    /\ script = At(0)
    /\ pc[1] = "idle"
    /\ calls[1] = 0
    /\ script' = At(8)
    /\ StartCall(1, ScriptArguments)
    /\ UNCHANGED <<remote, fs, prev, overlap, last_writer>>

\* lines 8-17: the call returns into df, which is printed if it is not None; an
\* exception of the call ends the script
ScriptPrint ==
    /\ script = At(8)
    /\ \/ pc[1] = "returned" /\ script' = At(20)
       \/ pc[1] = "raised" /\ script' = Crashed(8, result[1].exc)
    /\ UNCHANGED <<remote, fs, locals, observed>>

\* line 20: df.to_csv('exported_data.csv', index=False)
ScriptExport ==
    /\ script = At(20)
    /\ IF result[1].outcome = "None"
       THEN /\ script' = Crashed(20, "AttributeError")
            /\ UNCHANGED fs
       ELSE /\ script' = At(23)
            /\ fs' = ("exported_data.csv" :> CsvLinesNoIndex(combined_df[1])) @@ fs
    /\ UNCHANGED <<remote, locals, observed>>

\* line 23: the confirmation is printed and the script ends
ScriptConfirm ==
    /\ script = At(23)
    /\ script' = At(24)
    /\ UNCHANGED <<remote, fs, locals, observed>>

NextScript ==
    \/ ScriptCall
    \/ FetchDay(1)
    \/ EndLoop(1)
    \/ WriteHeader(1)
    \/ WriteRows(1)
    \/ ScriptPrint
    \/ ScriptExport
    \/ ScriptConfirm

SpecScript == Init /\ [][NextScript]_vars

(* ------------------------------- properties --------------------------- *)

\* a call that is over: it returned or let an exception through
Over(p) == pc[p] \in {"returned", "raised"}

\* the requested days, in ascending order
DayCount(a) == IF a.start_date <= a.end_date THEN a.end_date - a.start_date + 1 ELSE 0
DayOf(a, i) == a.start_date + i - 1

\* the URL of each day's archive, as get_url gives it
UrlOfDay ==
    [m \in Markets, d \in Days |-> get_url(m[2], m[1], d)]

\* what the host reads in each of these URLs
Requested ==
    [u \in { UrlOfDay[m, d] : m \in Markets, d \in Days } |-> ParseUrl(u)]

\* the response the host holds for a requested day
DayResponse(a, i) == remote[UrlOfDay[<<a.symbol, a.timeframe>>, DayOf(a, i)]]

\* the first member's lines of a response that is a zip archive with a member
PayloadLines(r) == r.content.members[1].lines
HasPayload(r) ==
    ~r.raised /\ r.status_code = 200 /\ r.content.zip /\ r.content.members # << >>

\* a successful day: HTTP 200 and a CSV of one or more rows of 12 fields each
Succeeds(r) ==
    /\ HasPayload(r)
    /\ PayloadLines(r) # << >>
    /\ \A k \in 1 .. Len(PayloadLines(r)) : Len(PayloadLines(r)[k]) = 12

\* a day that fails with a status other than 200 or with an exception of the
\* transport, the archive or the parser
FailsLoudly(r) ==
    \/ r.raised
    \/ r.status_code # 200
    \/ ~r.content.zip
    \/ r.content.members = << >>
    \/ PayloadLines(r) = << >>
    \/ \E k \in 1 .. Len(PayloadLines(r)) : Len(PayloadLines(r)[k]) > Len(PayloadLines(r)[1])

\* the rows of the successful days among the first n requested days, in day order
RECURSIVE RowsOfDays(_, _)
RowsOfDays(a, n) ==
    IF n = 0 THEN << >>
    ELSE RowsOfDays(a, n - 1)
         \o (IF Succeeds(DayResponse(a, n)) THEN PayloadLines(DayResponse(a, n)) ELSE << >>)

\* a datetime is the conversion of a millisecond timestamp <<hi, lo>>
IsDatetimeOf(t, v) ==
    /\ 0 <= t.ms /\ t.ms < 86400000
    /\ t.date * 864 + t.ms \div 100000 = v[1] * 10 + v[2] \div 100000
    /\ t.ms % 100000 = v[2] % 100000

\* a table holds exactly the given 12-field rows, in their order
HoldsRows(df, rows) ==
    /\ Len(df.data) = Len(rows)
    /\ Len(df.index) = Len(rows)
    /\ \A i \in 1 .. Len(rows) :
          /\ IsDatetimeOf(df.index[i], rows[i][1])
          /\ df.data[i] = Tail(rows[i])

\* C1: when every day of a range start_date <= end_date either succeeds or
\* fails with a status other than 200 or an exception, and at least one day
\* succeeds, the call returns a table whose rows are the rows of the successful
\* days only, concatenated in ascending day order with their order within a day
\* kept, neither sorted nor deduplicated
C1_RowsOfSuccessfulDays ==
    \A p \in Procs :
       LET a == args[p]
           n == DayCount(a)
       IN  ( /\ Over(p)
             /\ n > 0
             /\ \A i \in 1 .. n : Succeeds(DayResponse(a, i)) \/ FailsLoudly(DayResponse(a, i))
             /\ \E i \in 1 .. n : Succeeds(DayResponse(a, i)) )
           => /\ result[p] = ReturnFrame
              /\ HoldsRows(combined_df[p], RowsOfDays(a, n))

\* a call over three days has returned: the first day gave three unsorted rows
\* with a duplicate, the second failed, the third gave one row
C1_Witness ==
    LET a == args[1]
    IN  /\ pc[1] = "returned"
        /\ DayCount(a) = 3
        /\ Len(remote[gets[1][1]].content.members) = 1
        /\ Len(PayloadLines(remote[gets[1][1]])) = 3
        /\ Succeeds(remote[gets[1][1]])
        /\ remote[gets[1][2]].status_code = 404
        /\ Succeeds(remote[gets[1][3]])
        /\ Len(combined_df[1].data) = 4
        /\ combined_df[1].data[1] = combined_df[1].data[3]

\* C2: when every day of the range fails, with a status other than 200 or with
\* an exception, the call returns None and leaves the file system as it was
C2_AllDaysFail ==
    \A p \in Procs :
       LET a == args[p]
       IN  ( /\ Over(p)
             /\ \A i \in 1 .. DayCount(a) : FailsLoudly(DayResponse(a, i)) )
           => /\ result[p] = ReturnNone
              /\ fs = fs0[p]
              /\ opens[p] = 0

\* a call over three days has returned None: one day gave HTTP 404, one a
\* transport error, one a corrupt archive
C2_Witness ==
    LET a == args[1]
    IN  /\ pc[1] = "returned"
        /\ result[1] = ReturnNone
        /\ DayCount(a) = 3
        /\ remote[gets[1][1]].status_code = 404
        /\ remote[gets[1][2]].raised
        /\ remote[gets[1][3]].status_code = 200

\* C3: every day-level failure, a payload without exactly 12 fields per row
\* included, is a day without data: the call does not raise, and the table it
\* returns, if any day succeeds, holds the rows of the successful days only
C3_DayFailuresAreSkipped ==
    \A p \in Procs :
       LET a == args[p]
           n == DayCount(a)
       IN  Over(p) =>
              /\ pc[p] # "raised"
              /\ IF \E i \in 1 .. n : Succeeds(DayResponse(a, i))
                 THEN result[p] = ReturnFrame /\ HoldsRows(combined_df[p], RowsOfDays(a, n))
                 ELSE result[p] = ReturnNone

\* C4: for start_date <= end_date the loop issues one GET per calendar day of the
\* range, in ascending order, each day once whatever its outcome, and ends once
\* the current day is past end_date
C4_OneGetPerDay ==
    \A p \in Procs :
       LET a == args[p]
       IN  (calls[p] > 0 /\ a.start_date <= a.end_date) =>
              /\ \A i \in 1 .. Len(gets[p]) :
                    /\ gets[p][i] \in DOMAIN Requested
                    /\ Requested[gets[p][i]].date = DayOf(a, i)
              /\ current_date[p] = a.start_date + Len(gets[p])
              /\ current_date[p] <= a.end_date + 1
              /\ pc[p] # "loop" => Len(gets[p]) = a.end_date - a.start_date + 1

\* a call over three days is over, its second day having failed
C4_Witness ==
    /\ pc[1] = "returned"
    /\ args[1].end_date = args[1].start_date + 2
    /\ Len(gets[1]) = 3
    /\ remote[gets[1][2]].raised
    /\ ParseUrl(gets[1][1]).date = DaysFromCivil(2023, 12, 31)
    /\ ParseUrl(gets[1][3]).date = DaysFromCivil(2024, 1, 2)

\* the timestamps of the rows of the days whose CSV was read, in day order
RECURSIVE StampsOfDays(_, _)
StampsOfDays(a, n) ==
    IF n = 0 THEN << >>
    ELSE LET r == DayResponse(a, n)
         IN  StampsOfDays(a, n - 1)
             \o (IF FailsLoudly(r) THEN << >>
                 ELSE [k \in 1 .. Len(PayloadLines(r)) |-> PayloadLines(r)[k][1]])

\* C5: whenever the call returns a table, whichever days succeeded, its index
\* is the datetime converted from the timestamp field and its columns are, in
\* this order, open, high, low, close, volume, close_time, quote_volume, trades,
\* taker_buy_base, taker_buy_quote, ignore; the timestamp is not kept as a
\* column; the file has the index first, then these 11 columns
C5_ColumnsAndIndex ==
    \A p \in Procs :
       LET df    == combined_df[p]
           lines == fs[output_file(args[p])]
           ts    == StampsOfDays(args[p], DayCount(args[p]))
       IN  (pc[p] = "returned" /\ result[p] = ReturnFrame) =>
              /\ df.columns = << "open", "high", "low", "close", "volume", "close_time",
                                 "quote_volume", "trades", "taker_buy_base",
                                 "taker_buy_quote", "ignore" >>
              /\ df.index_name = "timestamp"
              /\ Len(df.index) = Len(ts)
              /\ \A i \in 1 .. Len(df.index) :
                    IsDatetimeOf(df.index[i], ts[i]) /\ Len(df.data[i]) = 11
              /\ lines[1] = << "timestamp", "open", "high", "low", "close", "volume",
                               "close_time", "quote_volume", "trades", "taker_buy_base",
                               "taker_buy_quote", "ignore" >>
              /\ Len(lines) = Len(df.data) + 1
              /\ \A k \in 2 .. Len(lines) : Len(lines[k]) = 12

\* a table is returned for three days of which only the second succeeded, with
\* its first row at 01:00 on 2024-01-01
C5_Witness ==
    /\ pc[1] = "returned"
    /\ result[1] = ReturnFrame
    /\ Len(gets[1]) = 3
    /\ ~Succeeds(remote[gets[1][1]])
    /\ ~Succeeds(remote[gets[1][3]])
    /\ Len(combined_df[1].data) = 3
    /\ combined_df[1].index[1] = [date |-> DaysFromCivil(2024, 1, 1), ms |-> 3600000]
    /\ fs[output_file(args[1])][2][1] = "2024-01-01 01:00:00"

\* C6: a second call with identical arguments against an unchanged host comes
\* to the same result, returns the same table and leaves the same output file
\* as the first; no row of the first call is carried into the second
C6_Idempotent ==
    \A p \in Procs :
       (calls[p] >= 2 /\ Over(p)) =>
          /\ result[p] = prev[p].result
          /\ combined_df[p] = prev[p].df
          /\ FileAt(fs, output_file(args[p])) = prev[p].file

\* a second call has returned a table of rows and its file is there
C6_Witness ==
    /\ calls[1] = 2
    /\ pc[1] = "returned"
    /\ result[1] = ReturnFrame
    /\ Len(combined_df[1].data) >= 4
    /\ prev[1].file.exists
    /\ Len(prev[1].file.lines) >= 5

\* C7: each URL requested is the fixed prefix, then /symbol/timeframe/, then
\* symbol-timeframe-YYYY-MM-DD.zip, for the call's own symbol and timeframe and
\* the day visited
C7_UrlOfEachDay ==
    /\ get_url("1h", "BTCUSDT", DaysFromCivil(2024, 1, 1))
         = "https://data.binance.vision/data/spot/daily/klines/BTCUSDT/1h/BTCUSDT-1h-2024-01-01.zip"
    /\ \A p \in Procs : \A i \in 1 .. Len(gets[p]) :
          LET u == Requested[gets[p][i]]
          IN  /\ SubSeq(gets[p][i], 1, 51)
                   = "https://data.binance.vision/data/spot/daily/klines/"
              /\ gets[p][i] \in DOMAIN Requested
              /\ u.ok
              /\ u.symbol = args[p].symbol
              /\ u.timeframe = args[p].timeframe
              /\ u.date = DayOf(args[p], i)
              /\ Len(gets[p][i]) = 51 + 2 * Len(args[p].symbol) + 2 * Len(args[p].timeframe) + 18

\* ETHUSDT at 1m has been requested over the turn of the year
C7_Witness ==
    /\ Len(gets[1]) = 3
    /\ args[1].symbol = "ETHUSDT"
    /\ gets[1][1] = "https://data.binance.vision/data/spot/daily/klines/ETHUSDT/1m/ETHUSDT-1m-2023-12-31.zip"
    /\ gets[1][2] = "https://data.binance.vision/data/spot/daily/klines/ETHUSDT/1m/ETHUSDT-1m-2024-01-01.zip"

\* C8: the output file is not touched while days are fetched; a call that has
\* data opens <base_path>/<symbol>_<timeframe>_<start_date>_<end_date>.csv once,
\* after the loop, and returns the table only after writing it; a table is
\* returned exactly when the file was written, and the file holds that table
C8_WriteOnceAfterLoop ==
    \A p \in Procs :
       LET f == output_file(args[p])
       IN  /\ args[p] = Arguments("BTCUSDT", "1h", DaysFromCivil(2024, 1, 1), DaysFromCivil(2024, 1, 2))
                => f = "data/BTCUSDT_1h_2024-01-01_2024-01-02.csv"
           /\ pc[p] = "loop" => (fs = fs0[p] /\ opens[p] = 0)
           /\ pc[p] = "to_csv" => (opens[p] = 1 /\ result[p] = Running)
           /\ (Over(p) /\ result[p] = ReturnFrame) =>
                 /\ opens[p] = 1
                 /\ DOMAIN fs = DOMAIN fs0[p] \cup {f}
                 /\ fs[f] = CsvLines(combined_df[p])
                 /\ \A g \in DOMAIN fs0[p] \ {f} : fs[g] = fs0[p][g]
           /\ (Over(p) /\ result[p] # ReturnFrame) => (fs = fs0[p] /\ opens[p] = 0)

\* a first call for 2024-01-01 .. 2024-01-02 has returned a table and the file
\* with its header and rows is there
C8_Witness ==
    /\ pc[1] = "returned"
    /\ result[1] = ReturnFrame
    /\ fs0[1] = << >>
    /\ "data/BTCUSDT_1h_2024-01-01_2024-01-02.csv" \in DOMAIN fs
    /\ Len(fs["data/BTCUSDT_1h_2024-01-01_2024-01-02.csv"]) = 5

\* the rows of the successful days among the first n requested days, in day
\* order, the days in S left out
RECURSIVE RowsOfDaysBut(_, _, _)
RowsOfDaysBut(a, n, S) ==
    IF n = 0 THEN << >>
    ELSE RowsOfDaysBut(a, n - 1, S)
         \o (IF n \notin S /\ Succeeds(DayResponse(a, n))
             THEN PayloadLines(DayResponse(a, n)) ELSE << >>)

\* the days whose archive the host may have published during the call
MaybePublished(a) ==
    { i \in 1 .. DayCount(a) :
        DayResponse(a, i) = Published(UrlOfDay[<<a.symbol, a.timeframe>>, DayOf(a, i)]) }

\* a caller's table holds the rows the host served to that caller: those of
\* its successful days, a day published meanwhile counted or not
OwnTable(p) ==
    LET a == args[p]
        n == DayCount(a)
    IN  ( /\ pc[p] = "returned"
          /\ result[p] = ReturnFrame
          /\ \A i \in 1 .. n : Succeeds(DayResponse(a, i)) \/ FailsLoudly(DayResponse(a, i)) )
        => \E S \in SUBSET MaybePublished(a) : HoldsRows(combined_df[p], RowsOfDaysBut(a, n, S))

BothOver == \A p \in Procs : calls[p] = 1 /\ Over(p)

\* C9 as claimed: once two concurrent calls for the same output file are over,
\* the file holds the complete table of the call that wrote last, and each
\* call has returned its own table
C9_LastWriterWins ==
    /\ (BothOver /\ last_writer # 0) =>
          fs[output_file(args[1])] = CsvLines(combined_df[last_writer])
    /\ \A p \in Procs : OwnTable(p)

\* C9 amended: the file holds the complete table of the call that wrote last
\* when the two calls' writes of the file did not overlap in time; each call
\* has returned its own table
C9_LastWriterWinsWithoutOverlap ==
    /\ (BothOver /\ last_writer # 0 /\ ~overlap) =>
          fs[output_file(args[1])] = CsvLines(combined_df[last_writer])
    /\ \A p \in Procs : OwnTable(p)

\* two calls for the same file are over with different tables, their writes did
\* not overlap, and caller 1 wrote last
C9_Witness ==
    /\ BothOver
    /\ ~overlap
    /\ last_writer = 1
    /\ result[1] = ReturnFrame
    /\ result[2] = ReturnFrame
    /\ Len(combined_df[1].data) < Len(combined_df[2].data)
    /\ fs[output_file(args[1])] = CsvLines(combined_df[1])

\* C10 as claimed: the script uses df only when it is not None, so that a call
\* returning None leads to no export and to no error
C10_ScriptHandlesNone ==
    (script.line > 0 /\ result[1] = ReturnNone) =>
       /\ script.exc = ""
       /\ "exported_data.csv" \notin DOMAIN fs

====
